---- MODULE Spec2Model ----
(***************************************************************************)
(* Model of EditorComponent (src/src/app/editor/editor.component.ts): the  *)
(* debounced disaster-recovery persistence, the save / close / generate    *)
(* command flows and the toast flags.                                      *)
(*                                                                         *)
(* Time is discrete, one unit = 1000 ms.  setTimeout(cb, 5000) registers a *)
(* timer with 5 units left; Tick takes one unit off every pending timer.   *)
(* A timer with nothing left runs its callback before time advances again, *)
(* but any other event of the same instant may run before it (one          *)
(* cooperative task queue).  Promise settlements of the download and       *)
(* generation transports arrive at any time, in any order.                 *)
(*                                                                         *)
(* Timer ids are opaque: the component only stores them and hands them     *)
(* back to clearTimeout.  setTimeout therefore returns the least id that   *)
(* names no pending timer and is held in neither handle field, which is    *)
(* indistinguishable from a counter and keeps the state space finite.      *)
(***************************************************************************)
EXTENDS Integers, Sequences, FiniteSets

\* ---------------------------------------------------------------- bounds
MaxTimers == 2      \* timers pending at once
MaxGen == 2         \* generateAndDownload promises in flight at once
MaxSaves == 2       \* downloadToFS promises in flight at once
MaxCount == 2       \* history counters saturate here

\* ------------------------------------------------------ program constants
PersistDelay == 5
ToastDelay == 5

NoTimer == 0

NoError == "null"
Messages == {"quota exceeded", "server down"}

\* -------------------------------------------------------------- documents
\* The value of apiEditor.getValue().spec: a structured object, a structured
\* object that cannot be serialized (cyclic), or text that is already
\* serialized.  `enc` is "none" for a structured value.
Docs ==
    { [kind |-> "object", enc |-> "none", of |-> "A"],
      [kind |-> "cyclic", enc |-> "none", of |-> "A"],
      [kind |-> "text",   enc |-> "yaml", of |-> "A"] }

NoSnapshot == [kind |-> "none", enc |-> "none", of |-> "none"]

Encodings == {"JSON", "YAML"}

VARIABLES
    timers,             \* pending setTimeout callbacks: [id, kind, left]
    doc,                \* apiEditor.getValue().spec
    encoding,           \* this.encoding
    store,              \* the recovery snapshot held by StorageService
    persistenceTimeout, \* this.persistenceTimeout
    generating,         \* this.generating
    generateError,      \* this.generateError
    showSuccessToast,   \* this.showSuccessToast
    showErrorToast,     \* this.showErrorToast
    toastTimeoutId,     \* this.toastTimeoutId
    genInflight,        \* generateAndDownload promises not yet settled
    saveInflight,       \* downloadToFS promises not yet settled, by caller
    closed,             \* onClose has been emitted
    lastOp,             \* history: the handler that ran last
    out,                \* history: outward effects of the last handler
    sinceEdit,          \* history: time since the last documentChanged(), -1 if none
    burstEdits,         \* history: documentChanged() calls of the current burst
    burstStores,        \* history: storage.store calls since the burst began
    storeGap,           \* history: sinceEdit at the last storage.store call
    closeArmed          \* history: close() ran with a timer pending, no edit since

vars == << timers, doc, encoding, store, persistenceTimeout,
           generating, generateError, showSuccessToast, showErrorToast,
           toastTimeoutId, genInflight, saveInflight, closed, lastOp, out,
           sinceEdit, burstEdits, burstStores, storeGap, closeArmed >>

ctl == << generating, generateError, showSuccessToast, showErrorToast,
          toastTimeoutId, genInflight >>
hist == << sinceEdit, burstEdits, burstStores, storeGap >>

\* ---------------------------------------------------------------- helpers
Op(n, i, a) == [name |-> n, id |-> i, arg |-> a]

Effect(t, p, f) == [type |-> t, payload |-> p, filename |-> f]

Min(a, b) == IF a < b THEN a ELSE b

\* The id the next setTimeout call returns.
FreshId ==
    CHOOSE i \in 1..(MaxTimers + 3) :
        /\ i \notin { t.id : t \in timers } \cup {persistenceTimeout, toastTimeoutId}
        /\ \A j \in 1..(i - 1) :
              j \in { t.id : t \in timers } \cup {persistenceTimeout, toastTimeoutId}

\* setTimeout(cb, delay): the timer table with one more pending callback.
setTimeout(ts, id, k, delay) == ts \cup { [id |-> id, kind |-> k, left |-> delay] }

\* clearTimeout(id): no effect when id is null or names no pending timer.
clearTimeout(ts, id) == { t \in ts : t.id # id }

PersistTimers == { t \in timers : t.kind = "persist" }
ToastTimers == { t \in timers : t.kind = "toast" }

\* JSON.stringify(spec, null, 4) and YAML.safeDump(spec, ...) of a
\* serializable structured value.
JSONstringify(d) == [enc |-> "json", of |-> d.of]
YAMLsafeDump(d) == [enc |-> "yaml", of |-> d.of]

\* A value handed on without serialization.
AsIs(d) == [enc |-> d.enc, of |-> d.of]

\* typeof spec === "object"
IsObject(d) == d.kind \in {"object", "cyclic"}
\* JSON.stringify / YAML.safeDump throw on this value
Throws(d) == d.kind = "cyclic"

\* StorageService.store / StorageService.clear
StorageStore(snapshot) == snapshot
StorageClear == NoSnapshot

Init ==
    /\ timers = {}
    /\ doc \in Docs
    /\ encoding \in Encodings
    /\ store = NoSnapshot
    /\ persistenceTimeout = NoTimer
    /\ generating = FALSE
    /\ generateError = NoError
    /\ showSuccessToast = FALSE
    /\ showErrorToast = FALSE
    /\ toastTimeoutId = NoTimer
    /\ genInflight = 0
    /\ saveInflight = [plain |-> 0, andClose |-> 0]
    /\ closed = FALSE
    /\ lastOp = Op("init", 0, NoError)
    /\ out = << >>
    /\ sinceEdit = -1
    /\ burstEdits = 0
    /\ burstStores = 0
    /\ storeGap = -1
    /\ closeArmed = FALSE

\* ----------------------------------------------------------------- clock
\* One time unit passes.  sinceEdit stops counting once it exceeds the delay.
Tick ==
    /\ \A t \in timers : t.left > 0
    /\ timers' = { [t EXCEPT !.left = t.left - 1] : t \in timers }
    /\ sinceEdit' = IF sinceEdit = -1 THEN -1 ELSE Min(sinceEdit + 1, PersistDelay + 1)
    /\ UNCHANGED << doc, encoding, store, persistenceTimeout, ctl, saveInflight,
                    closed, lastOp, out, burstEdits, burstStores, storeGap,
                    closeArmed >>

\* ------------------------------------------------------ recovery scheduler
\* History kept at each documentChanged(): a call that arrives less than 5
\* time units after the previous one continues the burst, any other call
\* starts a new burst.
editHistory ==
    /\ LET newBurst == sinceEdit = -1 \/ sinceEdit >= 5
       IN /\ burstEdits' = IF newBurst THEN 1 ELSE Min(burstEdits + 1, MaxCount)
          /\ burstStores' = IF newBurst THEN 0 ELSE burstStores
    /\ sinceEdit' = 0
    /\ closeArmed' = FALSE
    /\ out' = << >>

\* Mutant: a leading-edge debounce, which keeps the timer of the first edit
\* of a burst instead of restarting it.
documentChanged_Leading ==
    /\ \E d \in Docs : doc' = d
    /\ IF persistenceTimeout # NoTimer
         THEN /\ UNCHANGED << timers, persistenceTimeout >>
              /\ lastOp' = Op("documentChanged", persistenceTimeout, NoError)
         ELSE /\ Cardinality(timers) < MaxTimers
              /\ timers' = setTimeout(timers, FreshId, "persist", PersistDelay)
              /\ persistenceTimeout' = FreshId
              /\ lastOp' = Op("documentChanged", FreshId, NoError)
    /\ editHistory
    /\ UNCHANGED << encoding, store, ctl, saveInflight, closed, storeGap >>

\* Mutant: the handle is reset but clearTimeout is never called.
documentChanged_NoCancel ==
    /\ Cardinality(timers) < MaxTimers
    /\ \E d \in Docs : doc' = d
    /\ timers' = setTimeout(timers, FreshId, "persist", PersistDelay)
    /\ persistenceTimeout' = FreshId
    /\ lastOp' = Op("documentChanged", FreshId, NoError)
    /\ editHistory
    /\ UNCHANGED << encoding, store, ctl, saveInflight, closed, storeGap >>

\* documentChanged(): the user changed the document (the editing surface
\* already holds the new value d).
documentChanged ==
    /\ \E d \in Docs : doc' = d
    /\ LET kept == IF persistenceTimeout # NoTimer
                     THEN clearTimeout(timers, persistenceTimeout)
                     ELSE timers
       IN /\ Cardinality(kept) < MaxTimers
          /\ timers' = setTimeout(kept, FreshId, "persist", PersistDelay)
    /\ persistenceTimeout' = FreshId
    /\ lastOp' = Op("documentChanged", FreshId, NoError)
    /\ editHistory
    /\ UNCHANGED << encoding, store, ctl, saveInflight, closed, storeGap >>

\* The callback of documentChanged's setTimeout.  storage.store either
\* returns, or throws and the rest of the callback is skipped.
persistenceTimeoutFired ==
    \E t \in PersistTimers :
        /\ t.left = 0
        /\ timers' = timers \ {t}
        /\ \E ok \in BOOLEAN :
              IF ok THEN /\ store' = StorageStore(doc)
                         /\ persistenceTimeout' = NoTimer
                         /\ lastOp' = Op("persistenceTimeout", t.id, NoError)
                    ELSE /\ UNCHANGED << store, persistenceTimeout >>
                         /\ lastOp' = Op("persistenceTimeout", t.id, "threw")
        /\ burstStores' = Min(burstStores + 1, MaxCount)
        /\ storeGap' = sinceEdit
        /\ out' = << >>
        /\ UNCHANGED << doc, encoding, ctl, saveInflight, closed, sinceEdit,
                        burstEdits, closeArmed >>

\* ------------------------------------------------------ session controller
\* saveExt(): the save path of the embedding host.
saveExt ==
    /\ IF IsObject(doc)
         THEN IF Throws(doc)
                THEN /\ lastOp' = Op("saveExt", 0, "threw")
                     /\ out' = << >>
                ELSE /\ lastOp' = Op("saveExt", 0, NoError)
                     /\ out' = << Effect("save-req",
                                        IF encoding = "JSON" THEN JSONstringify(doc)
                                        ELSE IF encoding = "YAML" THEN YAMLsafeDump(doc)
                                        ELSE AsIs(doc),
                                        "") >>
         ELSE /\ lastOp' = Op("saveExt", 0, NoError)
              /\ out' = << >>
    /\ UNCHANGED << timers, doc, encoding, store, persistenceTimeout, ctl,
                    saveInflight, closed, hist, closeArmed >>

Formats == {"json", "yaml"}

\* The filename and content save(format) computes (lines 124-140).
saveFilename(d, format) ==
    IF IsObject(d)
      THEN IF format = "json" THEN "openapi-spec.json" ELSE "openapi-spec.yaml"
      ELSE "openapi-spec"

saveContent(d, format) ==
    IF IsObject(d)
      THEN IF format = "json" THEN JSONstringify(d) ELSE YAMLsafeDump(d)
      ELSE AsIs(d)

\* The synchronous part of save(format), up to the call of downloadToFS;
\* caller is "andClose" when saveAndClose() chains close() on the result.
saveBody(format, caller, name) ==
    /\ generateError' = NoError
    /\ IF IsObject(doc) /\ Throws(doc)
         THEN /\ lastOp' = Op(name, 0, "threw")
              /\ out' = << >>
              /\ UNCHANGED saveInflight
         ELSE /\ saveInflight.plain + saveInflight.andClose < MaxSaves
              /\ saveInflight' = [saveInflight EXCEPT ![caller] = @ + 1]
              /\ lastOp' = Op(name, 0, format)
              /\ out' = << Effect("downloadToFS", saveContent(doc, format),
                                  saveFilename(doc, format)) >>
    /\ UNCHANGED << timers, doc, encoding, store, persistenceTimeout, generating,
                    showSuccessToast, showErrorToast, toastTimeoutId, genInflight,
                    closed, hist, closeArmed >>

save == \E format \in Formats : saveBody(format, "plain", "save")

saveAndClose == saveBody("json", "andClose", "saveAndClose")

\* close()
close ==
    /\ generateError' = NoError
    /\ store' = StorageClear
    /\ closed' = TRUE
    /\ out' = << Effect("onClose", NoSnapshot, "") >>
    /\ lastOp' = Op("close", 0, NoError)
    /\ closeArmed' = (PersistTimers # {})
    /\ UNCHANGED << timers, doc, encoding, persistenceTimeout, generating,
                    showSuccessToast, showErrorToast, toastTimeoutId, genInflight,
                    saveInflight, hist >>

\* downloadToFS resolved: save()'s then-handler, and for a call made by
\* saveAndClose() its then-handler after it, which is close().
downloadResolved(caller) ==
    /\ saveInflight[caller] > 0
    /\ saveInflight' = [saveInflight EXCEPT ![caller] = @ - 1]
    /\ store' = StorageClear
    /\ IF caller = "andClose"
         THEN /\ generateError' = NoError
              /\ closed' = TRUE
              /\ out' = << Effect("onClose", NoSnapshot, "") >>
              /\ closeArmed' = (PersistTimers # {})
         ELSE /\ out' = << >>
              /\ UNCHANGED << generateError, closed, closeArmed >>
    /\ lastOp' = Op("downloadResolved", 0, caller)
    /\ UNCHANGED << timers, doc, encoding, persistenceTimeout, generating,
                    showSuccessToast, showErrorToast, toastTimeoutId, genInflight,
                    hist >>

\* Mutant: close() chained with finally(), so that it also runs on rejection.
downloadRejected_Closes(caller) ==
    /\ saveInflight[caller] > 0
    /\ saveInflight' = [saveInflight EXCEPT ![caller] = @ - 1]
    /\ IF caller = "andClose"
         THEN /\ generateError' = NoError
              /\ store' = StorageClear
              /\ closed' = TRUE
              /\ out' = << Effect("onClose", NoSnapshot, "") >>
              /\ closeArmed' = (PersistTimers # {})
         ELSE /\ out' = << >>
              /\ UNCHANGED << generateError, store, closed, closeArmed >>
    /\ lastOp' = Op("downloadRejected", 0, caller)
    /\ UNCHANGED << timers, doc, encoding, persistenceTimeout, generating,
                    showSuccessToast, showErrorToast, toastTimeoutId, genInflight,
                    hist >>

\* downloadToFS rejected: neither then-handler runs.
downloadRejected(caller) ==
    /\ saveInflight[caller] > 0
    /\ saveInflight' = [saveInflight EXCEPT ![caller] = @ - 1]
    /\ out' = << >>
    /\ lastOp' = Op("downloadRejected", 0, caller)
    /\ UNCHANGED << timers, doc, encoding, store, persistenceTimeout, ctl, closed,
                    hist, closeArmed >>

\* ------------------------------------------------------------ generation
\* generate(gconfig), up to the call of generateAndDownload.
generate ==
    /\ generateError' = NoError
    /\ showErrorToast' = FALSE
    /\ showSuccessToast' = FALSE
    /\ IF IsObject(doc) /\ Throws(doc)
         THEN /\ lastOp' = Op("generate", 0, "threw")
              /\ out' = << >>
              /\ UNCHANGED << generating, genInflight >>
         ELSE /\ genInflight < MaxGen
              /\ generating' = TRUE
              /\ genInflight' = genInflight + 1
              /\ lastOp' = Op("generate", 0, NoError)
              /\ out' = << Effect("generateAndDownload",
                                  IF IsObject(doc) THEN JSONstringify(doc) ELSE AsIs(doc),
                                  "camel-project.zip") >>
    /\ UNCHANGED << timers, doc, encoding, store, persistenceTimeout,
                    toastTimeoutId, saveInflight, closed, hist, closeArmed >>

\* generateAndDownload resolved: the then-handler.
generateResolved ==
    /\ genInflight > 0
    /\ Cardinality(timers) < MaxTimers
    /\ genInflight' = genInflight - 1
    /\ generating' = FALSE
    /\ showSuccessToast' = TRUE
    /\ toastTimeoutId' = FreshId
    /\ timers' = setTimeout(timers, FreshId, "toast", ToastDelay)
    /\ lastOp' = Op("generateResolved", FreshId, NoError)
    /\ out' = << >>
    /\ UNCHANGED << doc, encoding, store, persistenceTimeout, generateError,
                    showErrorToast, saveInflight, closed, hist, closeArmed >>

\* generateAndDownload rejected with error.message = m: the catch-handler.
generateRejected ==
    /\ genInflight > 0
    /\ \E m \in Messages :
          /\ generateError' = m
          /\ lastOp' = Op("generateRejected", 0, m)
    /\ genInflight' = genInflight - 1
    /\ generating' = FALSE
    /\ showErrorToast' = TRUE
    /\ out' = << >>
    /\ UNCHANGED << timers, doc, encoding, store, persistenceTimeout,
                    showSuccessToast, toastTimeoutId, saveInflight, closed, hist,
                    closeArmed >>

\* Mutant: the auto-dismiss callback hides whichever toast is shown.
toastTimeoutFired_HidesAll ==
    \E t \in ToastTimers :
        /\ t.left = 0
        /\ timers' = timers \ {t}
        /\ showSuccessToast' = FALSE
        /\ showErrorToast' = FALSE
        /\ lastOp' = Op("toastTimeout", t.id, NoError)
        /\ out' = << >>
        /\ UNCHANGED << doc, encoding, store, persistenceTimeout, generating,
                        generateError, toastTimeoutId, genInflight, saveInflight,
                        closed, hist, closeArmed >>

\* The callback of the then-handler's setTimeout.
toastTimeoutFired ==
    \E t \in ToastTimers :
        /\ t.left = 0
        /\ timers' = timers \ {t}
        /\ showSuccessToast' = FALSE
        /\ lastOp' = Op("toastTimeout", t.id, NoError)
        /\ out' = << >>
        /\ UNCHANGED << doc, encoding, store, persistenceTimeout, generating,
                        generateError, showErrorToast, toastTimeoutId, genInflight,
                        saveInflight, closed, hist, closeArmed >>

closeSuccessToast ==
    /\ showSuccessToast' = FALSE
    /\ timers' = clearTimeout(timers, toastTimeoutId)
    /\ lastOp' = Op("closeSuccessToast", 0, NoError)
    /\ out' = << >>
    /\ UNCHANGED << doc, encoding, store, persistenceTimeout, generating,
                    generateError, showErrorToast, toastTimeoutId, genInflight,
                    saveInflight, closed, hist, closeArmed >>

closeErrorToast ==
    /\ showErrorToast' = FALSE
    /\ timers' = clearTimeout(timers, toastTimeoutId)
    /\ lastOp' = Op("closeErrorToast", 0, NoError)
    /\ out' = << >>
    /\ UNCHANGED << doc, encoding, store, persistenceTimeout, generating,
                    generateError, showSuccessToast, toastTimeoutId, genInflight,
                    saveInflight, closed, hist, closeArmed >>

Callers == {"plain", "andClose"}

Next ==
    \/ Tick
    \/ documentChanged
    \/ persistenceTimeoutFired
    \/ saveExt
    \/ save
    \/ saveAndClose
    \/ close
    \/ \E c \in Callers : downloadResolved(c)
    \/ \E c \in Callers : downloadRejected(c)
    \/ generate
    \/ generateResolved
    \/ generateRejected
    \/ toastTimeoutFired
    \/ closeSuccessToast
    \/ closeErrorToast

Spec == Init /\ [][Next]_vars

\* The recovery scheduler with the commands that clear it.  The handlers left
\* out (generate and the toast handlers) read and write none of the timers of
\* kind "persist", store and persistenceTimeout.
NextRecovery ==
    \/ Tick
    \/ documentChanged
    \/ persistenceTimeoutFired
    \/ saveExt
    \/ save
    \/ saveAndClose
    \/ close
    \/ \E c \in Callers : downloadResolved(c)
    \/ \E c \in Callers : downloadRejected(c)

SpecRecovery == Init /\ [][NextRecovery]_vars

\* The toast notifier: generation, its completions, the toast handlers and
\* close(), which resets generateError.  The handlers left out write none of
\* the toast flags, toastTimeoutId and the timers of kind "toast".
NextToast ==
    \/ Tick
    \/ generate
    \/ generateResolved
    \/ generateRejected
    \/ toastTimeoutFired
    \/ closeSuccessToast
    \/ closeErrorToast
    \/ close

SpecToast == Init /\ [][NextToast]_vars

\* The toast notifier together with the save commands and their deliveries,
\* which reset generateError while a toast may be shown.
NextSave ==
    \/ Tick
    \/ generate
    \/ generateResolved
    \/ generateRejected
    \/ toastTimeoutFired
    \/ closeSuccessToast
    \/ closeErrorToast
    \/ save
    \/ saveAndClose
    \/ close
    \/ \E c \in Callers : downloadResolved(c)
    \/ \E c \in Callers : downloadRejected(c)

SpecSave == Init /\ [][NextSave]_vars

\* ================================================================ claims
Emitted(t) == \E k \in 1..Len(out) : out[k].type = t

\* C1: in a burst of documentChanged() calls, each less than 5 time units
\* after the previous one, storage.store is called exactly once, 5 time units
\* after the last call of the burst: never more than once, never at another
\* time, and it has been called once the clock has passed that instant.
C1_DebounceOneWrite ==
    sinceEdit # -1 =>
        /\ burstStores <= 1
        /\ (burstStores = 1 => storeGap = 5)
        /\ (sinceEdit > 5 => burstStores = 1)

C1_Witness ==
    /\ burstEdits >= 2
    /\ burstStores = 1
    /\ storeGap = 5
    /\ sinceEdit > 5

\* C2: at most one recovery-persistence timer is pending in every reachable
\* state.
C2_OnePersistTimer == Cardinality(PersistTimers) <= 1

C2_Witness ==
    /\ lastOp.name = "documentChanged"
    /\ burstEdits >= 2
    /\ sinceEdit = 0
    /\ Cardinality(PersistTimers) = 1

\* C3: when save() has completed successfully the recovery store is empty
\* and no recovery-persistence timer is pending.
C3_SaveClearsRecovery ==
    lastOp.name = "downloadResolved" =>
        /\ store = NoSnapshot
        /\ PersistTimers = {}

\* C4: after close() ran with a recovery-persistence timer pending, and as
\* long as no documentChanged() follows, storage.store is never called and
\* the recovery store stays empty.
C4_CancelOnClose ==
    [][ (closeArmed /\ closeArmed') =>
            /\ lastOp'.name # "persistenceTimeout"
            /\ store' = NoSnapshot ]_vars

\* C5: a saveAndClose() call runs close() only when its own downloadToFS
\* promise has resolved; a call whose promise rejected never emits onClose.
C5_CloseOnlyOnSuccess ==
    /\ (lastOp.name \in {"saveAndClose", "downloadRejected"} => ~Emitted("onClose"))
    /\ (Emitted("onClose") =>
            \/ lastOp.name = "close"
            \/ (lastOp.name = "downloadResolved" /\ lastOp.arg = "andClose"))

C5_Witness ==
    /\ lastOp.name = "downloadRejected"
    /\ lastOp.arg = "andClose"
    /\ ~closed

\* C6: showSuccessToast and showErrorToast are never both true.
C6_AtMostOneToast == ~(showSuccessToast /\ showErrorToast)

\* C7: a shown success toast is hidden only by the timer its own completion
\* started (the one toastTimeoutId names), by closeSuccessToast() or by a
\* later generate() call.
C7_NoStaleDismiss ==
    [][ (showSuccessToast /\ ~showSuccessToast') =>
            \/ lastOp'.name \in {"closeSuccessToast", "generate"}
            \/ (lastOp'.name = "toastTimeout" /\ lastOp'.id = toastTimeoutId) ]_vars

\* C8: at most one toast auto-dismiss timer is outstanding in every
\* reachable state.
C8_OneToastTimer == Cardinality(ToastTimers) <= 1

\* C9: right after a generate() failure the error toast is shown with the
\* failure's message, generating is false and no auto-dismiss timer is
\* pending.
C9_ErrorExclusive ==
    lastOp.name = "generateRejected" =>
        /\ showErrorToast
        /\ generateError = lastOp.arg
        /\ ~generating
        /\ ToastTimers = {}

\* C10: the error toast is hidden only by closeErrorToast() or by a new
\* generate() call, never by a timer firing or by time passing.
C10_ErrorPersists ==
    [][ (showErrorToast /\ ~showErrorToast') =>
            lastOp'.name \in {"closeErrorToast", "generate"} ]_vars

C10_Witness ==
    /\ showErrorToast
    /\ lastOp.name = "toastTimeout"

\* C11: a shown success toast is hidden by its own auto-dismiss timer no
\* later than 5 time units after it was shown: while it is shown, the timer
\* toastTimeoutId names is pending, whatever other handlers have run.
C11_SuccessAutoDismiss ==
    showSuccessToast =>
        \E t \in ToastTimers : t.id = toastTimeoutId /\ t.left <= 5

\* C12: right after closeSuccessToast() or closeErrorToast() no toast is
\* shown and no auto-dismiss timer is pending.
C12_DismissResets ==
    lastOp.name \in {"closeSuccessToast", "closeErrorToast"} =>
        /\ ~showSuccessToast
        /\ ~showErrorToast
        /\ ToastTimers = {}

\* C13: whenever the error toast is shown, generateError holds a failure
\* message (is not null).
C13_MessageWhileShown == showErrorToast => generateError # NoError

\* C14: a save() whose delivery is rejected changes no toast or recovery
\* state.  Such a save() runs two handlers, its synchronous body and the
\* rejection of its promise; neither changes showSuccessToast,
\* showErrorToast, generateError, the toast timer, the recovery store or the
\* recovery timer.
C14_FailedSaveFrame ==
    [][ lastOp'.name \in {"save", "saveAndClose", "downloadRejected"} =>
            /\ showSuccessToast' = showSuccessToast
            /\ showErrorToast' = showErrorToast
            /\ generateError' = generateError
            /\ toastTimeoutId' = toastTimeoutId
            /\ { t.id : t \in timers' } = { t.id : t \in timers }
            /\ store' = store
            /\ persistenceTimeout' = persistenceTimeout ]_vars

\* C15: every error during generate() becomes toast state: a serialization
\* failure is not thrown to the caller, and after it, as after a rejected
\* generation, generating is false, the error toast is shown and
\* generateError holds the message.
C15_GenerateErrorsToToast ==
    /\ (lastOp.name = "generate" /\ IsObject(doc) /\ Throws(doc)) =>
            /\ lastOp.arg # "threw"
            /\ ~generating
            /\ showErrorToast
            /\ generateError # NoError
    /\ lastOp.name = "generateRejected" =>
            /\ ~generating
            /\ showErrorToast
            /\ generateError = lastOp.arg

\* C16: saveExt() sends exactly one "save-req" message and nothing else,
\* for every document value that can be serialized: a structured document
\* serialized per the session encoding, a text document unchanged.
C16_SaveExtSendsOne ==
    (lastOp.name = "saveExt" /\ ~(IsObject(doc) /\ Throws(doc))) =>
        /\ Len(out) = 1
        /\ out[1].type = "save-req"
        /\ out[1].payload =
              IF IsObject(doc)
                THEN IF encoding = "JSON" THEN JSONstringify(doc) ELSE YAMLsafeDump(doc)
                ELSE AsIs(doc)

\* C17: the filename save(format) hands to downloadToFS is
\* openapi-spec.json when format is "json" and openapi-spec.yaml otherwise,
\* for every document value.
C17_FilenameMatchesFormat ==
    (lastOp.name \in {"save", "saveAndClose"} /\ lastOp.arg \in Formats) =>
        /\ Len(out) = 1
        /\ out[1].type = "downloadToFS"
        /\ out[1].filename = IF lastOp.arg = "json" THEN "openapi-spec.json"
                                                    ELSE "openapi-spec.yaml"

\* C18: after the recovery timer fired and storage.store threw, the
\* scheduler is idle: persistenceTimeout is null and no recovery timer is
\* pending.
C18_IdleAfterStoreFailure ==
    (lastOp.name = "persistenceTimeout" /\ lastOp.arg = "threw") =>
        /\ persistenceTimeout = NoTimer
        /\ PersistTimers = {}

\* C19: a generation result that arrives after close() is a no-op.  Stated
\* for the result that is the first handler to run after close(), which was
\* in flight when close() ran: it changes none of generating,
\* showSuccessToast, showErrorToast, generateError and starts no toast timer.
C19_LateResultNoOp ==
    [][ ( /\ \/ lastOp.name = "close"
              \/ (lastOp.name = "downloadResolved" /\ lastOp.arg = "andClose")
          /\ lastOp'.name \in {"generateResolved", "generateRejected"} ) =>
            /\ generating' = generating
            /\ showSuccessToast' = showSuccessToast
            /\ showErrorToast' = showErrorToast
            /\ generateError' = generateError
            /\ { t.id : t \in ToastTimers' } = { t.id : t \in ToastTimers } ]_vars

\* C20: generating is true exactly when a generateAndDownload promise is
\* in flight.
C20_GeneratingTracksInflight == generating <=> genInflight > 0
====
